---- MODULE Spec2Model ----
(***************************************************************************)
(* Model of NDVI_Calculate: the synthetic multispectral grid generator     *)
(* (data_gen.py: generate_spectral_grid, save_records_csv,                 *)
(* load_records_csv) and the host program (main.py: ndvi, run_example,     *)
(* main).                                                                  *)
(*                                                                         *)
(* Reals are fixed-point integers with SCALE units per 1.0.  SCALE is      *)
(* three units per 0.0001, so that the 4-decimal text format of the CSV    *)
(* codec really rounds.  random.Random is a seeded deterministic stream:   *)
(* a small linear congruential generator stands for the Mersenne Twister,  *)
(* and every call of uniform/gauss/random advances it by one step.         *)
(***************************************************************************)
EXTENDS Integers, Sequences, FiniteSets, TLC

\* ------------------------------------------------------------------ bounds
MaxDim == 2
MaxSeed == 3
MaxCoord == 2
MaxFileRows == 2
MainDim == 2

\* ------------------------------------------------------- fixed-point reals
SCALE == 3 * 10000

Dec(n, d) == (n * SCALE) \div d

Mul(a, b) == (a * b) \div SCALE

Abs(a) == IF a < 0 THEN 0 - a ELSE a

Max2(a, b) == IF a >= b THEN a ELSE b

Min2(a, b) == IF a <= b THEN a ELSE b

\* e^(-1) and its powers, math.exp on a non-positive whole argument
EInv == Dec(36788, 100000)

RECURSIVE EInvPow(_)
EInvPow(q) == IF q = 0 THEN SCALE ELSE Mul(EInv, EInvPow(q - 1))

\* Taylor series of e^(-f) for 0 <= f < 1, term k = term (k-1) * (-f) / k
RECURSIVE ExpSeries(_, _, _)
ExpSeries(f, term, k) ==
  IF k > 9 THEN 0
  ELSE LET t == (0 - (term * f)) \div (k * SCALE)
       IN t + ExpSeries(f, t, k + 1)

\* math.exp(-(num / den)) for num >= 0, den > 0
ExpNeg(num, den) ==
  LET q == num \div den
      f == ((num % den) * SCALE) \div den
  IN IF q >= 14 THEN 0
     ELSE Mul(EInvPow(q), SCALE + ExpSeries(f, SCALE, 1))

\* math.sin(x) for |x| <= 1 (x = r / 11.0 with the row counts explored)
Sin(x) ==
  LET x2 == Mul(x, x)
      x3 == Mul(x2, x)
      x5 == Mul(x3, x2)
      x7 == Mul(x5, x2)
  IN x - x3 \div 6 + x5 \div 120 - x7 \div 5040

\* ---------------------------------------------------------- random.Random
RngMod == 65537

LcgStep(x) == (75 * x + 74) % RngMod

\* standard normal deviates in hundredths, by quantile; the outer bins carry
\* the tail values gauss() can return
ZTable == <<0 - 800, 0 - 300, 0 - 200, 0 - 150, 0 - 100, 0 - 60, 0 - 30, 0 - 10,
            10, 30, 60, 100, 150, 200, 300, 800>>

VARIABLES gpc, rows, cols, seed, rng, col_bias, row_gradient, r, c, records,
          clouded, phase, memo, disk, loaded, cells, ids, mpc, given, results,
          summary, raised

gvars == <<gpc, rows, cols, seed, rng, col_bias, row_gradient, r, c, records,
           clouded>>

hvars == <<phase, memo, disk, loaded>>

pvars == <<cells, ids>>

mvars == <<mpc, given, results, summary, raised>>

ovars == <<pvars, mvars>>

vars == <<gvars, hvars, ovars>>

\* a process-wide generator: the stream goes on from where the last call left it
SharedRandom(s) == [x |-> rng.x, log |-> <<>>]

\* random.Random(seed): a fresh stream whose state depends on the seed only
NewRandom(s) == [x |-> (s * 1337 + 1) % RngMod, log |-> <<>>]

\* one call on the stream: advance it, log the call site and the value
Drawn(g, site, x, v) ==
  [rng |-> [x |-> x, log |-> Append(g.log, [site |-> site, value |-> v])],
   value |-> v]

\* rng.random(): in [0, 1)
Random(g, site) ==
  LET x == LcgStep(g.x) IN Drawn(g, site, x, (x * SCALE) \div RngMod)

\* rng.uniform(a, b) = a + (b - a) * random()
Uniform(g, site, a, b) ==
  LET x == LcgStep(g.x) IN Drawn(g, site, x, a + ((b - a) * x) \div RngMod)

\* rng.gauss(mu, sigma) = mu + z * sigma
Gauss(g, site, mu, sigma) ==
  LET x == LcgStep(g.x)
      z == ZTable[1 + (x * Len(ZTable)) \div RngMod]
  IN Drawn(g, site, x, mu + (z * sigma) \div 100)

\* ------------------------------------------------------------ field model
\* the two stress pockets: centre (rows * cr, cols * cc), sigma2 = (rows * rad)^2,
\* the factors in hundredths
stress_centers == <<[cr |-> 65, cc |-> 68, rad |-> 20],
                    [cr |-> 30, cc |-> 25, rad |-> 18]>>

\* math.exp(-dist2 / (2 * sigma2)) of one pocket, dist2 and sigma2 as exact
\* fractions over 100^2
Pocket(p, rw, cl, rr, cc) ==
  LET dr == 100 * rr - p.cr * rw
      dc == 100 * cc - p.cc * cl
      sg == p.rad * rw
  IN ExpNeg(dr * dr + dc * dc, 2 * sg * sg)

\* no bound applied
ClampNone(value, lo, hi) == value

\* _clamp
Clamp(value, lo, hi) == Max2(lo, Min2(hi, value))

Stress(rw, cl, rr, cc) ==
  Clamp(Pocket(stress_centers[1], rw, cl, rr, cc)
          + Pocket(stress_centers[2], rw, cl, rr, cc), 0, Dec(16, 10))

Fertility(rw, cl, rr, cc) ==
  Mul(Dec(15, 100), SCALE - (rr * SCALE) \div rw)
    + Mul(Dec(5, 100), (cc * SCALE) \div cl)

\* row_gradient = [1.0 + 0.04 * sin(r / 11.0) for r in range(rows)]
RowGradient(rw) ==
  [i \in 1..Max2(rw, 0) |-> SCALE + Mul(Dec(4, 100), Sin(((i - 1) * SCALE) \div 11))]

\* col_bias = [rng.gauss(1.0, 0.01) for _ in range(cols)]: the stream after
\* the draws and the list
RECURSIVE ColBiasDraws(_, _)
ColBiasDraws(g, n) ==
  IF n <= 0 THEN [rng |-> g, list |-> <<>>]
  ELSE LET before == ColBiasDraws(g, n - 1)
           d == Gauss(before.rng, "col_bias", SCALE, Dec(1, 100))
       IN [rng |-> d.rng, list |-> Append(before.list, d.value)]

\* ------------------------------------------------------------------ plot_id
Digit == <<"0", "1", "2", "3", "4", "5", "6", "7", "8", "9">>

\* str(n) for n >= 0
RECURSIVE Digits(_)
Digits(n) ==
  IF n < 10 THEN <<Digit[n + 1]>> ELSE Append(Digits(n \div 10), Digit[(n % 10) + 1])

\* format spec 03d: zero-padded to at least three characters, n >= 0
RECURSIVE ZeroPad(_, _)
ZeroPad(s, width) == IF Len(s) >= width THEN s ELSE ZeroPad(<<"0">> \o s, width)

\* exactly three digits: the low three of n
Pad3Truncating(n) == ZeroPad(Digits(n % 1000), 3)

Pad3(n) == ZeroPad(Digits(n), 3)

\* f"R{r + 1:03d}C{c + 1:03d}"
PlotId(rr, cc) == <<"R">> \o Pad3(rr + 1) \o <<"C">> \o Pad3(cc + 1)

\* ---------------------------------------------------------- band synthesizer
\* the two draws in the other order
CloudFactorsSwapped(g) ==
  LET n == Uniform(g, "factor_nir", Dec(90, 100), Dec(96, 100))
      v == Uniform(n.rng, "factor_vis", Dec(105, 100), Dec(112, 100))
  IN [rng |-> v.rng, factor_vis |-> v.value, factor_nir |-> n.value]

\* the two draws of the thin-cloud branch
CloudFactors(g) ==
  LET v == Uniform(g, "factor_vis", Dec(105, 100), Dec(112, 100))
      n == Uniform(v.rng, "factor_nir", Dec(90, 100), Dec(96, 100))
  IN [rng |-> n.rng, factor_vis |-> v.value, factor_nir |-> n.value]

\* one pass of the loop body for cell (rr, cc): the stream after it, the
\* record, and whether the thin-cloud branch was taken
GenerateCell(g, rw, cl, rr, cc, rowg, colb) ==
  LET stress == Stress(rw, cl, rr, cc)
      fertility == Fertility(rw, cl, rr, cc)
      d1 == Uniform(g, "illumination", Dec(93, 100), Dec(107, 100))
      illumination == Mul(Mul(d1.value, rowg[rr + 1]), colb[cc + 1])
      d2 == Gauss(d1.rng, "target_ndvi", 0, Dec(2, 100))
      target_ndvi == Clamp(Dec(70, 100) + fertility - Mul(Dec(40, 100), stress) + d2.value,
                           Dec(5, 100), Dec(92, 100))
      d3 == Uniform(d2.rng, "total_reflectance", Dec(42, 100), Dec(80, 100))
      total_reflectance == Mul(illumination, d3.value)
      nir0 == Mul(target_ndvi + SCALE, total_reflectance) \div 2
      red0 == total_reflectance - nir0
      d4 == Gauss(d3.rng, "nir", 0, Dec(6, 1000))
      d5 == Gauss(d4.rng, "red", 0, Dec(6, 1000))
      nir == Clamp(nir0 + d4.value, Dec(1, 100), Dec(95, 100))
      red == Clamp(red0 + d5.value, Dec(1, 100), Dec(95, 100))
      d6 == Gauss(d5.rng, "blue", 0, Dec(6, 1000))
      blue == Clamp(Dec(4, 100) + Mul(Dec(7, 100), Dec(11, 10) - target_ndvi) + d6.value,
                    Dec(2, 100), Dec(22, 100))
      d7 == Gauss(d6.rng, "green", 0, Dec(1, 100))
      green == Clamp(Dec(20, 100) + Mul(Dec(12, 100), Dec(9, 10) - stress) + d7.value,
                     Dec(12, 100), Dec(42, 100))
      d8 == Gauss(d7.rng, "red_edge_1", 0, Dec(8, 1000))
      red_edge == Clamp(Dec(18, 100) + Mul(Dec(40, 100), target_ndvi) + d8.value,
                        Dec(10, 100), Dec(70, 100))
      d9 == Gauss(d8.rng, "red_edge_2", 0, Dec(6, 1000))
      red_edge2 == Clamp(red_edge + Mul(Dec(5, 100), target_ndvi - Dec(5, 10)) + d9.value,
                         Dec(10, 100), Dec(75, 100))
      d10 == Gauss(d9.rng, "nir_2", 0, Dec(4, 1000))
      nir2 == Clamp(nir + d10.value + Mul(Dec(2, 100), SCALE - stress),
                    Dec(5, 100), Dec(95, 100))
      d11 == Gauss(d10.rng, "swir_1", 0, Dec(1, 100))
      swir1 == Clamp(Dec(22, 100) + Mul(Dec(28, 100), stress) + d11.value,
                     Dec(10, 100), Dec(70, 100))
      d12 == Gauss(d11.rng, "swir_2", 0, Dec(1, 100))
      swir2 == Clamp(swir1 + Mul(Dec(5, 100), stress) + d12.value,
                     Dec(10, 100), Dec(75, 100))
      d13 == Random(d12.rng, "cloud_flag")
      cloud == d13.value < Dec(2, 100)
      f == CloudFactors(d13.rng)
      fv == IF cloud THEN f.factor_vis ELSE SCALE
      fn == IF cloud THEN f.factor_nir ELSE SCALE
      fs == IF cloud THEN Mul(f.factor_vis, Dec(9, 10)) ELSE SCALE
  IN [rng |-> IF cloud THEN f.rng ELSE d13.rng,
      cloud |-> cloud,
      rec |-> [plot_id |-> PlotId(rr, cc), row |-> rr, col |-> cc,
               blue_480 |-> Mul(blue, fv), green_560 |-> Mul(green, fv),
               red_665 |-> Mul(red, fv), red_edge_705 |-> Mul(red_edge, fv),
               red_edge_740 |-> Mul(red_edge2, fv), nir_842 |-> Mul(nir, fn),
               nir2_865 |-> Mul(nir2, fn), swir_1610 |-> Mul(swir1, fs),
               swir_2190 |-> Mul(swir2, fs)]]

\* ------------------------------------------------------------ dataset codec
\* A CSV file is its header (column names) and its data rows; a field is a
\* sequence of characters.
Header == <<"plot_id", "row", "col", "blue_480", "green_560", "red_665",
            "red_edge_705", "red_edge_740", "nir_842", "nir2_865", "swir_1610",
            "swir_2190">>

BandNames == <<"blue_480", "green_560", "red_665", "red_edge_705", "red_edge_740",
               "nir_842", "nir2_865", "swir_1610", "swir_2190">>

\* str(n) for an int
IntText(n) == IF n < 0 THEN <<"-">> \o Digits(0 - n) ELSE Digits(n)

\* four digits after the point, the rest cut off
Format4Truncating(x) ==
  LET q == (Abs(x) * 10000) \div SCALE
  IN (IF x < 0 THEN <<"-">> ELSE <<>>)
       \o Digits(q \div 10000) \o <<".">> \o ZeroPad(Digits(q % 10000), 4)

\* f"{x:.4f}": the nearest multiple of 0.0001, four digits after the point
Format4(x) ==
  LET q == (2 * Abs(x) * 10000 + SCALE) \div (2 * SCALE)
  IN (IF x < 0 THEN <<"-">> ELSE <<>>)
       \o Digits(q \div 10000) \o <<".">> \o ZeroPad(Digits(q % 10000), 4)

\* the row save_records_csv writes for one record
CsvRow(rec) ==
  <<rec.plot_id, IntText(rec.row), IntText(rec.col)>>
    \o [k \in 1..Len(BandNames) |-> Format4(rec[BandNames[k]])]

save_records_csv(recs) ==
  [exists |-> TRUE, header |-> Header,
   rows |-> [i \in 1..Len(recs) |-> CsvRow(recs[i])]]

IsDigits(s) ==
  Len(s) >= 1 /\ \A i \in 1..Len(s) : \E d \in 1..10 : s[i] = Digit[d]

DigitVal(ch) == (CHOOSE d \in 1..10 : Digit[d] = ch) - 1

RECURSIVE NatOf(_)
NatOf(s) ==
  IF s = <<>> THEN 0
  ELSE NatOf(SubSeq(s, 1, Len(s) - 1)) * 10 + DigitVal(s[Len(s)])

RECURSIVE Pow10(_)
Pow10(n) == IF n = 0 THEN 1 ELSE 10 * Pow10(n - 1)

Unsigned(s) == IF s # <<>> /\ s[1] = "-" THEN Tail(s) ELSE s

Signed(s, v) == IF s # <<>> /\ s[1] = "-" THEN 0 - v ELSE v

\* int(text): None where text is not a decimal integer (ValueError)
IntOf(s) ==
  IF IsDigits(Unsigned(s))
  THEN [ok |-> TRUE, v |-> Signed(s, NatOf(Unsigned(s)))]
  ELSE [ok |-> FALSE, v |-> 0]

\* float(text) for plain decimal text: digits, at most one point
FloatOf(s) ==
  LET b == Unsigned(s)
      dots == {i \in 1..Len(b) : b[i] = "."}
      dot == IF dots = {} THEN Len(b) + 1 ELSE CHOOSE i \in dots : \A j \in dots : i <= j
      ip == SubSeq(b, 1, dot - 1)
      fp == SubSeq(b, dot + 1, Len(b))
      good == /\ (ip = <<>> \/ IsDigits(ip))
              /\ (fp = <<>> \/ IsDigits(fp))
              /\ (ip # <<>> \/ fp # <<>>)
  IN IF good
     THEN [ok |-> TRUE,
           v |-> Signed(s, NatOf(ip) * SCALE + (NatOf(fp) * SCALE) \div Pow10(Len(fp)))]
     ELSE [ok |-> FALSE, v |-> 0]

\* csv.DictReader's row[name]: the field under the column, None for a row
\* shorter than the header
ColumnOf(header, name) == {k \in 1..Len(header) : header[k] = name}

FieldOf(header, fields, name) ==
  LET k == CHOOSE k \in ColumnOf(header, name) : TRUE
  IN IF k <= Len(fields) THEN [none |-> FALSE, text |-> fields[k]]
     ELSE [none |-> TRUE, text |-> <<>>]

\* the exception one keyword argument of SpectralRecord(...) raises, or "none"
ArgError(header, fields, name) ==
  IF ColumnOf(header, name) = {} THEN "KeyError"
  ELSE LET f == FieldOf(header, fields, name)
       IN IF name = "plot_id" THEN "none"
          ELSE IF f.none THEN "TypeError"
          ELSE IF name \in {"row", "col"}
               THEN (IF IntOf(f.text).ok THEN "none" ELSE "ValueError")
               ELSE (IF FloatOf(f.text).ok THEN "none" ELSE "ValueError")

\* the arguments are evaluated in the order of the call: the first that
\* raises decides
RowError(header, fields) ==
  LET bad == {k \in 1..Len(Header) : ArgError(header, fields, Header[k]) # "none"}
  IN IF bad = {} THEN "none"
     ELSE ArgError(header, fields, Header[CHOOSE k \in bad : \A j \in bad : k <= j])

RowRecord(header, fields) ==
  [name \in {Header[k] : k \in 1..Len(Header)} |->
     LET f == FieldOf(header, fields, name)
     IN IF name = "plot_id" THEN f.text
        ELSE IF name \in {"row", "col"} THEN IntOf(f.text).v
        ELSE FloatOf(f.text).v]

\* load_records_csv: the records, or the exception that ends the call
load_records_csv(file) ==
  IF ~file.exists THEN [error |-> "FileNotFoundError", records |-> <<>>]
  ELSE LET bad == {i \in 1..Len(file.rows) : RowError(file.header, file.rows[i]) # "none"}
       IN IF bad # {}
          THEN [error |-> RowError(file.header,
                                   file.rows[CHOOSE i \in bad : \A j \in bad : i <= j]),
                records |-> <<>>]
          ELSE [error |-> "none",
                records |-> [i \in 1..Len(file.rows) |->
                               RowRecord(file.header, file.rows[i])]]

\* ----------------------------------------------------------- index analyzer
\* a float that is a number, or NaN
NaN == [finite |-> FALSE, v |-> 0]

Num(x) == [finite |-> TRUE, v |-> x]

\* a / b in fixed point, b # 0
Quot(a, b) == IF b > 0 THEN (a * SCALE) \div b ELSE ((0 - a) * SCALE) \div (0 - b)

\* the difference taken the other way round
ndviSwapped(red, nir) ==
  LET denom == nir + red
  IN IF denom = 0 THEN NaN ELSE Num(Quot(red - nir, denom))

\* ndvi(red, nir)
ndvi(red, nir) ==
  LET denom == nir + red
  IN IF denom = 0 THEN NaN ELSE Num(Quot(nir - red, denom))

\* a < b on floats: False when either is NaN
Less(a, b) == a.finite /\ b.finite /\ a.v < b.v

Add(a, b) == IF a.finite /\ b.finite THEN Num(a.v + b.v) ELSE NaN

\* sum(values), from 0
RECURSIVE SumOf(_)
SumOf(vs) == IF vs = <<>> THEN Num(0) ELSE Add(SumOf(SubSeq(vs, 1, Len(vs) - 1)), vs[Len(vs)])

\* min(values) and max(values) of a non-empty list: the first element, replaced
\* by each later one that compares below (above) it
RECURSIVE MinOf(_)
MinOf(vs) ==
  IF Len(vs) = 1 THEN vs[1]
  ELSE LET m == MinOf(SubSeq(vs, 1, Len(vs) - 1))
       IN IF Less(vs[Len(vs)], m) THEN vs[Len(vs)] ELSE m

RECURSIVE MaxOf(_)
MaxOf(vs) ==
  IF Len(vs) = 1 THEN vs[1]
  ELSE LET m == MaxOf(SubSeq(vs, 1, Len(vs) - 1))
       IN IF Less(m, vs[Len(vs)]) THEN vs[Len(vs)] ELSE m

IsFinite(x) == x.finite

\* no filter
KeepAll(vs) == vs

\* valid = [v for _, _, _, v in results if math.isfinite(v)]
Valid(vs) == SelectSeq(vs, IsFinite)

\* results of run_example: one tuple per record, in order
run_example(recs) ==
  [i \in 1..Len(recs) |->
     [row |-> recs[i].row, col |-> recs[i].col, plot_id |-> recs[i].plot_id,
      value |-> ndvi(recs[i].red_665, recs[i].nir_842)]]

\* mean_ndvi, lo, hi of run_example
Summary(res) ==
  LET valid == Valid([i \in 1..Len(res) |-> res[i].value])
      total == SumOf(valid)
  IN IF valid = <<>> THEN [mean |-> NaN, lo |-> NaN, hi |-> NaN]
     ELSE [mean |-> IF total.finite THEN Num(total.v \div Len(valid)) ELSE NaN,
           lo |-> MinOf(valid), hi |-> MaxOf(valid)]

\* ------------------------------------------------- generate_spectral_grid
Dims == (0 - 1)..MaxDim

Seeds == 0..MaxSeed

NoMemo == [rows |-> 0, cols |-> 0, seed |-> 0, records |-> <<>>]

NoFile == [exists |-> FALSE, header |-> <<>>, rows |-> <<>>]

NotLoaded == [error |-> "not loaded", records |-> <<>>]

NoSummary == [mean |-> NaN, lo |-> NaN, hi |-> NaN]

\* nothing called yet
Idle ==
  /\ gpc = "idle"
  /\ rows = 0 /\ cols = 0 /\ seed = 0
  /\ rng = [x |-> 1, log |-> <<>>]
  /\ col_bias = <<>> /\ row_gradient = <<>>
  /\ r = 0 /\ c = 0
  /\ records = <<>> /\ clouded = <<>>
  /\ phase = "start" /\ memo = NoMemo
  /\ loaded = NotLoaded
  /\ results = <<>> /\ summary = NoSummary /\ raised = "none"

Init ==
  /\ Idle
  /\ disk = NoFile /\ given = NoFile
  /\ cells = <<>> /\ ids = <<>>
  /\ mpc = "none"

\* entry: the arguments are bound and rng = random.Random(seed)
Enter(rw, cl, sd) ==
  /\ rows' = rw /\ cols' = cl /\ seed' = sd
  /\ rng' = NewRandom(sd)
  /\ col_bias' = <<>> /\ row_gradient' = <<>>
  /\ r' = 0 /\ c' = 0
  /\ records' = <<>> /\ clouded' = <<>>
  /\ gpc' = "col_bias"

\* a client's first call, with any arguments
Call ==
  /\ gpc = "idle" /\ phase = "start"
  /\ \E rw \in Dims, cl \in Dims, sd \in Seeds : Enter(rw, cl, sd)
  /\ phase' = "first"
  /\ UNCHANGED <<memo, disk, loaded, ovars>>

\* a later call with any arguments
CallOther ==
  /\ gpc = "returned" /\ phase = "first"
  /\ \E rw \in Dims, cl \in Dims, sd \in Seeds : Enter(rw, cl, sd)
  /\ phase' = "other"
  /\ UNCHANGED <<memo, disk, loaded, ovars>>

\* the first call's arguments once more
CallAgain ==
  /\ gpc = "returned" /\ phase \in {"first", "other"}
  /\ Enter(memo.rows, memo.cols, memo.seed)
  /\ phase' = IF phase = "other" THEN "again_after_other" ELSE "again"
  /\ UNCHANGED <<memo, disk, loaded, ovars>>

\* lines 43-44: the column biases and the row gradient, once per call
ColBias ==
  /\ gpc = "col_bias"
  /\ LET cb == ColBiasDraws(rng, cols)
     IN /\ rng' = cb.rng
        /\ col_bias' = cb.list
  /\ row_gradient' = RowGradient(rows)
  /\ gpc' = "cells"
  /\ UNCHANGED <<rows, cols, seed, r, c, records, clouded, hvars, ovars>>

\* the loops "for r in range(rows): for c in range(cols)": (r, c) is the next
\* cell, if there is one
HasCell == r < rows /\ c < cols

\* the loops nested the other way round
AfterCellColumnMajor(rr, cc) ==
  IF rr + 1 < rows THEN <<rr + 1, cc>> ELSE <<0, cc + 1>>

\* the cell after (rr, cc): the column loop is the inner one
AfterCell(rr, cc) ==
  IF cc + 1 < cols THEN <<rr, cc + 1>> ELSE <<rr + 1, 0>>

GenCell ==
  /\ gpc = "cells"
  /\ HasCell
  /\ LET cell == GenerateCell(rng, rows, cols, r, c, row_gradient, col_bias)
         nxt == AfterCell(r, c)
     IN /\ rng' = cell.rng
        /\ records' = Append(records, cell.rec)
        /\ clouded' = Append(clouded, cell.cloud)
        /\ r' = nxt[1] /\ c' = nxt[2]
  /\ UNCHANGED <<gpc, rows, cols, seed, col_bias, row_gradient, hvars, ovars>>

\* return records; the client keeps its first result
Return ==
  /\ gpc = "cells"
  /\ ~HasCell
  /\ gpc' = "returned"
  /\ memo' = IF phase = "first"
             THEN [rows |-> rows, cols |-> cols, seed |-> seed, records |-> records]
             ELSE memo
  /\ UNCHANGED <<rows, cols, seed, rng, col_bias, row_gradient, r, c, records,
                 clouded, phase, disk, loaded, ovars>>

Next == Call \/ CallOther \/ CallAgain \/ ColBias \/ GenCell \/ Return

Spec == Init /\ [][Next]_vars

\* ------------------------------------------ round trip through the codec
\* save_records_csv(records, path) on a grid just returned
Save ==
  /\ gpc = "returned"
  /\ disk' = save_records_csv(records)
  /\ UNCHANGED <<gvars, phase, memo, loaded, ovars>>

\* load_records_csv(path)
Load ==
  /\ gpc = "returned"
  /\ loaded' = load_records_csv(disk)
  /\ UNCHANGED <<gvars, phase, memo, disk, ovars>>

NextCodec == Call \/ ColBias \/ GenCell \/ Return \/ Save \/ Load

SpecCodec == Init /\ [][NextCodec]_vars

\* -------------------------------------------------- plot_id of two cells
Coords == (0..MaxCoord) \cup {8, 9, 98, 99, 998, 999, 1000, 9998, 9999}

InitPlot ==
  /\ Idle
  /\ disk = NoFile /\ given = NoFile
  /\ cells \in (Coords \X Coords) \X (Coords \X Coords)
  /\ ids = <<>>
  /\ mpc = "none"

\* line 94 for each of the two cells
AssignIds ==
  /\ ids = <<>>
  /\ ids' = <<PlotId(cells[1][1], cells[1][2]), PlotId(cells[2][1], cells[2][2])>>
  /\ UNCHANGED <<gvars, hvars, cells, mvars>>

NextPlot == AssignIds

SpecPlot == InitPlot /\ [][NextPlot]_vars

\* ------------------------------------------------------------------- main
MainSeed == 2027

\* the files main may find at data_path: none, or a header (whole, or with a
\* column missing) and up to MaxFileRows rows whose red and nir fields vary
RedTexts == {Format4(0), Format4(Dec(2, 10)), Format4(0 - Dec(2, 10)), <<"x">>}

NirTexts == {Format4(0), Format4(Dec(2, 10)), Format4(Dec(6, 10))}

Without(name) == SelectSeq(Header, LAMBDA h : h # name)

Headers == {Header, Without("swir_2190"), Without("red_665")}

EnvField(name, i, t) ==
  CASE name = "plot_id" -> PlotId(0, i - 1)
    [] name = "row" -> IntText(0)
    [] name = "col" -> IntText(i - 1)
    [] name = "red_665" -> t[1]
    [] name = "nir_842" -> t[2]
    [] OTHER -> Format4(Dec(5, 10))

EnvFile(header, texts) ==
  [exists |-> TRUE, header |-> header,
   rows |-> [i \in 1..Len(texts) |->
               [k \in 1..Len(header) |-> EnvField(header[k], i, texts[i])]]]

EnvFiles ==
  {NoFile} \cup
    {EnvFile(h, t) : h \in Headers,
                     t \in UNION {[1..n -> RedTexts \X NirTexts] : n \in 0..MaxFileRows}}

InitMain ==
  /\ Idle
  /\ disk \in EnvFiles /\ given = disk
  /\ cells = <<>> /\ ids = <<>>
  /\ mpc = "start"

\* line 85: if not data_path.exists(): regenerate()
MainStart ==
  /\ mpc = "start"
  /\ mpc' = IF disk.exists THEN "load" ELSE "regenerate"
  /\ UNCHANGED <<gvars, hvars, pvars, given, results, summary, raised>>

\* regenerate(), line 81: generate_spectral_grid(rows=140, cols=140, seed=2027),
\* the grid bounded to MainDim x MainDim
MainRegenerate ==
  /\ mpc \in {"regenerate", "regenerate_after_KeyError"}
  /\ Enter(MainDim, MainDim, MainSeed)
  /\ mpc' = IF mpc = "regenerate" THEN "save" ELSE "save_after_KeyError"
  /\ UNCHANGED <<hvars, pvars, given, results, summary, raised>>

\* regenerate(), line 82: save_records_csv(records_new, data_path)
MainSave ==
  /\ mpc \in {"save", "save_after_KeyError"}
  /\ gpc = "returned"
  /\ disk' = save_records_csv(records)
  /\ mpc' = IF mpc = "save" THEN "load" ELSE "reload"
  /\ UNCHANGED <<gvars, phase, memo, loaded, pvars, given, results, summary, raised>>

\* lines 88-91: try load_records_csv; except KeyError: regenerate
MainLoad ==
  /\ mpc = "load"
  /\ LET got == load_records_csv(disk)
     IN IF got.error = "none"
        THEN loaded' = got /\ mpc' = "loaded" /\ raised' = raised
        ELSE IF got.error = "KeyError"
        THEN loaded' = loaded /\ mpc' = "regenerate_after_KeyError" /\ raised' = raised
        ELSE loaded' = loaded /\ mpc' = "failed" /\ raised' = got.error
  /\ UNCHANGED <<gvars, phase, memo, disk, pvars, given, results, summary>>

\* line 92: the load inside the except clause; nothing catches what it raises
MainReload ==
  /\ mpc = "reload"
  /\ LET got == load_records_csv(disk)
     IN IF got.error = "none"
        THEN loaded' = got /\ mpc' = "loaded" /\ raised' = raised
        ELSE loaded' = loaded /\ mpc' = "failed" /\ raised' = got.error
  /\ UNCHANGED <<gvars, phase, memo, disk, pvars, given, results, summary>>

\* lines 93-97: max() over the records (ValueError on an empty list), then
\* run_example; the heatmap image is written outside the state kept here
MainAnalyze ==
  /\ mpc = "loaded"
  /\ IF loaded.records = <<>>
     THEN /\ mpc' = "failed" /\ raised' = "ValueError"
          /\ UNCHANGED <<results, summary>>
     ELSE /\ results' = run_example(loaded.records)
          /\ summary' = Summary(run_example(loaded.records))
          /\ mpc' = "done" /\ raised' = raised
  /\ UNCHANGED <<gvars, hvars, pvars, given>>

NextMain ==
  \/ MainStart \/ MainRegenerate \/ ColBias \/ GenCell \/ Return
  \/ MainSave \/ MainLoad \/ MainReload \/ MainAnalyze

SpecMain == InitMain /\ [][NextMain]_vars

\* ------------------------------------------------------------------ claims
\* C1: for rows >= 1 and cols >= 1 the call returns exactly rows * cols
\* records, record i (from 0) has row = i div cols and col = i mod cols, and
\* every (row, col) of the grid appears exactly once.
C1_Coverage ==
  (gpc = "returned" /\ rows >= 1 /\ cols >= 1) =>
    /\ Len(records) = rows * cols
    /\ \A i \in 1..Len(records) :
         /\ records[i].row = (i - 1) \div cols
         /\ records[i].col = (i - 1) % cols
    /\ \A rr \in 0..(rows - 1), cc \in 0..(cols - 1) :
         Cardinality({i \in 1..Len(records) :
                        records[i].row = rr /\ records[i].col = cc}) = 1

C1_Witness ==
  gpc = "returned" /\ rows >= 2 /\ cols >= 2 /\ Len(records) = rows * cols

\* C2: a call repeated with the arguments of the first call returns the
\* records of the first call, whatever call came in between.
C2_Determinism ==
  (gpc = "returned" /\ phase \in {"again", "again_after_other"}) =>
    records = memo.records

C2_Witness ==
  /\ gpc = "returned" /\ phase = "again_after_other"
  /\ Len(records) >= 2
  /\ \E i \in 1..Len(records) : clouded[i]

\* C3: with rows <= 0 or cols <= 0 the call consumes no draw and returns no
\* record list (it fails before any work).
C3_InvalidDimensionRejected ==
  (phase # "start" /\ (rows <= 0 \/ cols <= 0)) =>
    (rng.log = <<>> /\ gpc # "returned")

\* v within [lo, hi] scaled by a factor of [flo, fhi]
InScaled(v, lo, hi, flo, fhi) == Mul(lo, flo) <= v /\ v <= Mul(hi, fhi)

\* vlo..vhi scales the visible and red-edge bands, nlo..nhi the two nir
\* bands, slo..shi the two swir bands
BandsWithin(rec, vlo, vhi, nlo, nhi, slo, shi) ==
     /\ InScaled(rec.blue_480, Dec(2, 100), Dec(22, 100), vlo, vhi)
     /\ InScaled(rec.green_560, Dec(12, 100), Dec(42, 100), vlo, vhi)
     /\ InScaled(rec.red_665, Dec(1, 100), Dec(95, 100), vlo, vhi)
     /\ InScaled(rec.red_edge_705, Dec(10, 100), Dec(70, 100), vlo, vhi)
     /\ InScaled(rec.red_edge_740, Dec(10, 100), Dec(75, 100), vlo, vhi)
     /\ InScaled(rec.nir_842, Dec(1, 100), Dec(95, 100), nlo, nhi)
     /\ InScaled(rec.nir2_865, Dec(5, 100), Dec(95, 100), nlo, nhi)
     /\ InScaled(rec.swir_1610, Dec(10, 100), Dec(70, 100), slo, shi)
     /\ InScaled(rec.swir_2190, Dec(10, 100), Dec(75, 100), slo, shi)

\* C4: every band of a record lies in its clamp interval, or, where the
\* thin-cloud branch was taken, in that interval scaled by the factor range
\* (visible and red-edge bands [1.05, 1.12], nir bands [0.90, 0.96], swir
\* bands 0.9 * [1.05, 1.12]).
C4_Bounds ==
  \A i \in 1..Len(records) :
    IF clouded[i]
    THEN BandsWithin(records[i], Dec(105, 100), Dec(112, 100),
                     Dec(90, 100), Dec(96, 100),
                     Mul(Dec(105, 100), Dec(9, 10)), Mul(Dec(112, 100), Dec(9, 10)))
    ELSE BandsWithin(records[i], SCALE, SCALE, SCALE, SCALE, SCALE, SCALE)

C4_Witness ==
  /\ gpc = "returned"
  /\ \E i \in 1..Len(records) : clouded[i]
  /\ \E i \in 1..Len(records) : ~clouded[i]

\* the draws of one cell, in the order claimed
CellSites == <<"illumination", "target_ndvi", "total_reflectance", "nir", "red",
               "blue", "green", "red_edge_1", "red_edge_2", "nir_2", "swir_1",
               "swir_2", "cloud_flag">>

\* from position i on, the log holds exactly n cells' draws
RECURSIVE CellsFrom(_, _, _)
CellsFrom(log, i, n) ==
  IF n = 0 THEN i = Len(log) + 1
  ELSE /\ i + 12 <= Len(log)
       /\ \A k \in 1..13 : log[i + k - 1].site = CellSites[k]
       /\ IF log[i + 12].value < Dec(2, 100)
          THEN /\ i + 14 <= Len(log)
               /\ log[i + 13].site = "factor_vis"
               /\ log[i + 14].site = "factor_nir"
               /\ CellsFrom(log, i + 15, n - 1)
          ELSE CellsFrom(log, i + 13, n - 1)

\* C10: the stream is consumed as cols column-bias draws (the list col_bias,
\* never changed afterwards), then per finished cell, in row-major order, the
\* thirteen draws of CellSites, followed by factor_vis and factor_nir exactly
\* when the cloud flag drawn was below 0.02; the log holds nothing else.
C10_DrawOrder ==
  (gpc \in {"cells", "returned"}) =>
    LET nb == Max2(cols, 0)
    IN /\ Len(col_bias) = nb
       /\ Len(rng.log) >= nb
       /\ \A k \in 1..nb :
            rng.log[k].site = "col_bias" /\ rng.log[k].value = col_bias[k]
       /\ CellsFrom(rng.log, nb + 1, Len(records))

C10_Witness ==
  /\ gpc = "returned" /\ rows >= 2 /\ cols >= 2
  /\ \E i \in 1..Len(records) : clouded[i]
  /\ \E i \in 1..Len(records) : ~clouded[i]

\* l is the multiple of 0.0001 nearest to o
Rounded4(l, o) ==
  /\ (l * 10000) % SCALE = 0
  /\ 2 * 10000 * Abs(l - o) <= SCALE

\* C8: a saved grid loads back (a load that found the file) with as many
\* records in the same order, the same plot_id, row and col, and every band
\* the original rounded to 4 decimal places.
C8_RoundTrip ==
  (disk.exists /\ loaded.error \notin {"not loaded", "FileNotFoundError"}) =>
    /\ loaded.error = "none"
    /\ Len(loaded.records) = Len(records)
    /\ \A i \in 1..Len(records) :
         /\ loaded.records[i].plot_id = records[i].plot_id
         /\ loaded.records[i].row = records[i].row
         /\ loaded.records[i].col = records[i].col
         /\ \A k \in 1..Len(BandNames) :
              Rounded4(loaded.records[i][BandNames[k]], records[i][BandNames[k]])

C8_Witness ==
  /\ disk.exists /\ loaded.error = "none"
  /\ Len(loaded.records) >= 2
  /\ \E i \in 1..Len(records) : clouded[i]
  /\ \E i \in 1..Len(records), k \in 1..Len(BandNames) :
       loaded.records[i][BandNames[k]] > records[i][BandNames[k]]
  /\ \E i \in 1..Len(records), k \in 1..Len(BandNames) :
       loaded.records[i][BandNames[k]] < records[i][BandNames[k]]

\* s is n in decimal, zero-padded to at least three digits
PaddedNumber(s, n) ==
  /\ IsDigits(s)
  /\ NatOf(s) = n
  /\ Len(s) >= 3
  /\ (Len(s) > 3 => s[1] # "0")

IdOf(id, cell) ==
  /\ id[1] = "R"
  /\ \E k \in 3..(Len(id) - 1) :
       /\ id[k] = "C"
       /\ PaddedNumber(SubSeq(id, 2, k - 1), cell[1] + 1)
       /\ PaddedNumber(SubSeq(id, k + 1, Len(id)), cell[2] + 1)

\* C5: a plot_id is "R", the row number row + 1 in decimal, zero-padded to at
\* least three digits, "C", and the column number col + 1 likewise; two
\* distinct cells never share one, also beyond 999 rows or columns.
C5_PlotId ==
  (ids # <<>>) =>
    /\ IdOf(ids[1], cells[1])
    /\ IdOf(ids[2], cells[2])
    /\ (cells[1] # cells[2] => ids[1] # ids[2])

C5_Witness ==
  /\ ids # <<>>
  /\ cells[1][1] >= 1000 /\ cells[2][1] < 999
  /\ cells[1][1] % 1000 = cells[2][1] % 1000
  /\ cells[1][2] = cells[2][2]

\* value is undefined exactly when red and nir are both zero, and is
\* otherwise the quotient (nir - red) / (nir + red), a number in [-1, 1]
IsNdviOf(value, red, nir) ==
  /\ (~value.finite) <=> (red = 0 /\ nir = 0)
  /\ value.finite =>
       /\ 0 - SCALE <= value.v /\ value.v <= SCALE
       /\ nir + red # 0
       /\ LET d == Abs(nir + red)
              n == IF nir + red > 0 THEN nir - red ELSE red - nir
          IN value.v * d <= n * SCALE /\ n * SCALE < (value.v + 1) * d

\* C6, as amended: for a record with red_665 >= 0 and nir_842 >= 0 the NDVI
\* is undefined exactly when both are zero, and is otherwise the quotient
\* (nir - red) / (nir + red), a number in [-1, 1].
C6_NdviNonNegative ==
  (mpc = "done") =>
    \A i \in 1..Len(results) :
      (loaded.records[i].red_665 >= 0 /\ loaded.records[i].nir_842 >= 0) =>
        IsNdviOf(results[i].value, loaded.records[i].red_665, loaded.records[i].nir_842)

\* C6, as claimed: the same for every record passed to run_example.
C6_NdviEveryRecord ==
  (mpc = "done") =>
    \A i \in 1..Len(results) :
      IsNdviOf(results[i].value, loaded.records[i].red_665, loaded.records[i].nir_842)

C6_Witness ==
  /\ mpc = "done"
  /\ \E i \in 1..Len(results) :
       ~results[i].value.finite /\ loaded.records[i].red_665 = 0
  /\ \E i \in 1..Len(results) :
       /\ results[i].value = Num(Dec(5, 10))
       /\ loaded.records[i].red_665 = Dec(2, 10)
       /\ loaded.records[i].nir_842 = Dec(6, 10)

\* the sum of the defined values among the first n results
RECURSIVE TotalOver(_, _)
TotalOver(res, n) ==
  IF n = 0 THEN 0
  ELSE TotalOver(res, n - 1) + (IF res[n].value.finite THEN res[n].value.v ELSE 0)

\* C7: run_example yields one tuple per record, in input order, also for a
\* record whose NDVI is undefined; mean, min and max are those of the defined
\* values, and undefined when there is none.
C7_UndefinedExcluded ==
  (mpc = "done") =>
    LET defined == {i \in 1..Len(results) : results[i].value.finite}
        n == Cardinality(defined)
        total == TotalOver(results, Len(results))
    IN /\ Len(results) = Len(loaded.records)
       /\ \A i \in 1..Len(results) :
            /\ results[i].row = loaded.records[i].row
            /\ results[i].col = loaded.records[i].col
            /\ results[i].plot_id = loaded.records[i].plot_id
       /\ IF defined = {}
          THEN ~summary.mean.finite /\ ~summary.lo.finite /\ ~summary.hi.finite
          ELSE /\ summary.mean.finite /\ summary.lo.finite /\ summary.hi.finite
               /\ \E i \in defined : results[i].value = summary.lo
               /\ \E i \in defined : results[i].value = summary.hi
               /\ \A i \in defined : /\ summary.lo.v <= results[i].value.v
                                     /\ results[i].value.v <= summary.hi.v
               /\ summary.mean.v * n <= total
               /\ total < (summary.mean.v + 1) * n

C7_Witness ==
  /\ mpc = "done"
  /\ \E i \in 1..Len(results) : ~results[i].value.finite
  /\ \E i \in 1..Len(results) : results[i].value.finite
  /\ summary.mean.finite

\* no file, a column absent from the header, or a band field that is not a
\* number
Malformed(file) ==
  \/ ~file.exists
  \/ \E k \in 1..Len(Header) : ColumnOf(file.header, Header[k]) = {}
  \/ \E i \in 1..Len(file.rows), k \in 1..Len(file.header) :
       /\ file.header[k] \notin {"plot_id", "row", "col"}
       /\ ~FloatOf(file.rows[i][k]).ok

\* C9: a dataset that is missing or malformed never makes main fail: main
\* regenerates and reloads.
C9_MainRecovers == Malformed(given) => mpc # "failed"

====
